---- MODULE Spec2Model ----
(***************************************************************************)
(* Huffman text compressor (src/main.py): MinHeap, HuffmanNode,            *)
(* HuffmanEncoder and FileCompressor.                                      *)
(*                                                                         *)
(* Strings are sequences of one-character strings; a bit string is a       *)
(* sequence over {"0","1"}; a bytes object is a sequence over 0..255.      *)
(* Python's None is the record None; a node's missing symbol is NoChar.    *)
(* List indices are 0-based as in the source: element i of a list h is     *)
(* h[i+1].                                                                 *)
(***************************************************************************)
EXTENDS Integers, Sequences, FiniteSets

VARIABLES root, codes, blob, result, text, enc, bt, op, truncated,
          heap, ret, prev, bitsIn, packed, unpacked

vars == <<root, codes, blob, result, text, enc, bt, op, truncated,
          heap, ret, prev, bitsIn, packed, unpacked>>

codecVars == <<root, codes, blob, result, text, enc, bt, truncated>>
heapVars == <<heap, ret, prev>>
packVars == <<bitsIn, packed, unpacked>>

---------------------------------------------------------------------------
(* Bounds of the model *)

MaxLen == 3
MaxTreeLen == 5
MaxHeap == 4
MaxFreq == 3
MaxBits == 9

Alphabet == {"a", "b", "c"}
TreeAlphabet == {"a", "b", "c", "d"}
Bit == {"0", "1"}

RECURSIVE SeqsUpTo(_, _)
SeqsUpTo(S, n) ==
    IF n = 0 THEN {<<>>}
    ELSE LET shorter == SeqsUpTo(S, n - 1)
         IN shorter \cup {Append(s, x) : s \in {t \in shorter : Len(t) = n - 1}, x \in S}

Texts == SeqsUpTo(Alphabet, MaxLen)
TreeTexts == SeqsUpTo(TreeAlphabet, MaxTreeLen)
BitStrings == SeqsUpTo(Bit, MaxBits)

---------------------------------------------------------------------------
(* HuffmanNode *)

None == [isNone |-> TRUE]
NoChar == "None"

HuffmanNode(char, freq) ==
    [char |-> char, freq |-> freq, left |-> None, right |-> None]

---------------------------------------------------------------------------
(* MinHeap: the list self.heap is the sequence h *)

parent(i) == (i - 1) \div 2
left_child(i) == 2 * i + 1
right_child(i) == 2 * i + 2

swap(h, i, j) == [h EXCEPT ![i + 1] = h[j + 1], ![j + 1] = h[i + 1]]

RECURSIVE heapify_up(_, _)
heapify_up(h, i) ==
    IF i > 0 /\ h[i + 1].freq < h[parent(i) + 1].freq
    THEN heapify_up(swap(h, i, parent(i)), parent(i))
    ELSE h

insert(h, item) == heapify_up(Append(h, item), Len(h))

(* the second comparison made against heap[i] instead of heap[min_idx] *)
heapify_down_pick_stale(h, i) ==
    LET left == left_child(i)
        right == right_child(i)
        m1 == IF left < Len(h) /\ h[left + 1].freq < h[i + 1].freq
              THEN left ELSE i
    IN IF right < Len(h) /\ h[right + 1].freq < h[i + 1].freq
       THEN right ELSE m1

(* the index _heapify_down moves heap[i] to: i itself or its lighter child *)
heapify_down_pick(h, i) ==
    LET left == left_child(i)
        right == right_child(i)
        m1 == IF left < Len(h) /\ h[left + 1].freq < h[i + 1].freq
              THEN left ELSE i
    IN IF right < Len(h) /\ h[right + 1].freq < h[m1 + 1].freq
       THEN right ELSE m1

RECURSIVE heapify_down(_, _)
heapify_down(h, i) ==
    LET min_idx == heapify_down_pick(h, i)
    IN IF min_idx # i
       THEN heapify_down(swap(h, i, min_idx), min_idx)
       ELSE h

(* returns the value returned and the list afterwards *)
extract_min(h) ==
    IF Len(h) = 0 THEN [ret |-> None, heap |-> h]
    ELSE IF Len(h) = 1 THEN [ret |-> h[1], heap |-> <<>>]
    ELSE LET min_item == h[1]
             last == h[Len(h)]
             popped == SubSeq(h, 1, Len(h) - 1)
         IN [ret |-> min_item,
             heap |-> heapify_down([popped EXCEPT ![1] = last], 0)]

---------------------------------------------------------------------------
(* HuffmanEncoder *)

(* Counter(text): keys in order of first occurrence, and their counts *)
RECURSIVE CounterKeys(_)
CounterKeys(t) ==
    IF t = <<>> THEN <<>>
    ELSE LET front == SubSeq(t, 1, Len(t) - 1)
             keys == CounterKeys(front)
             c == t[Len(t)]
         IN IF \E i \in DOMAIN keys : keys[i] = c THEN keys ELSE Append(keys, c)

CounterCount(t, c) == Cardinality({i \in DOMAIN t : t[i] = c})

RECURSIVE insert_leaves(_, _, _)
insert_leaves(h, keys, t) ==
    IF keys = <<>> THEN h
    ELSE insert_leaves(insert(h, HuffmanNode(keys[1], CounterCount(t, keys[1]))),
                       Tail(keys), t)

(* the two extracted nodes attached the other way round *)
merge_swapped(left, right) ==
    [char |-> NoChar, freq |-> left.freq + right.freq,
     left |-> right, right |-> left]

(* the node one iteration of the while loop makes of the two extracted *)
merge(left, right) ==
    [char |-> NoChar, freq |-> left.freq + right.freq,
     left |-> left, right |-> right]

RECURSIVE merge_loop(_)
merge_loop(h) ==
    IF Len(h) > 1
    THEN LET e1 == extract_min(h)
             e2 == extract_min(e1.heap)
         IN merge_loop(insert(e2.heap, merge(e1.ret, e2.ret)))
    ELSE h

(* build_tree on an encoder whose root is r: the value returned, the new   *)
(* self.root, the size of the local heap when the while loop exits and the *)
(* local heap when the method returns                                      *)
build_tree(t, r) ==
    IF t = <<>> THEN [ret |-> None, root |-> r, heap |-> <<>>, atexit |-> 0]
    ELSE LET h == merge_loop(insert_leaves(<<>>, CounterKeys(t), t))
             e == extract_min(h)
         IN [ret |-> e.ret, root |-> e.ret, heap |-> e.heap, atexit |-> Len(h)]

DictSet(d, k, v) == [x \in DOMAIN d \cup {k} |-> IF x = k THEN v ELSE d[x]]
EmptyDict == [x \in {} |-> <<>>]

leaf_code(code) == IF code # <<>> THEN code ELSE <<"0">>

(* _generate_codes: the dictionary self.codes after the call *)
RECURSIVE generate_codes(_, _, _)
generate_codes(node, code, d) ==
    IF node = None THEN d
    ELSE IF node.char # NoChar THEN DictSet(d, node.char, leaf_code(code))
    ELSE generate_codes(node.right, Append(code, "1"),
                        generate_codes(node.left, Append(code, "0"), d))

RECURSIVE join_codes(_, _)
join_codes(d, t) ==
    IF t = <<>> THEN <<>> ELSE d[t[1]] \o join_codes(d, Tail(t))

(* encode on an encoder in state (r, d): the tuple returned and the        *)
(* encoder's state afterwards                                              *)
encode(t, r, d) ==
    IF t = <<>>
    THEN [encoded |-> <<>>, codes |-> EmptyDict, root |-> r, selfcodes |-> d,
          heap |-> <<>>, built |-> FALSE]
    ELSE LET b == build_tree(t, r)
             d2 == generate_codes(b.root, <<>>, d)
         IN [encoded |-> join_codes(d2, t), codes |-> d2, root |-> b.root,
             selfcodes |-> d2, heap |-> b.heap, built |-> TRUE]

Raised == [ok |-> FALSE, text |-> <<>>]
Returned(t) == [ok |-> TRUE, text |-> t]

(* the node reached by one bit from current *)
decode_step(current, bit) == IF bit = "0" THEN current.left ELSE current.right

(* the loop of decode from position i (1-based) of encoded;                *)
(* reading .char of None raises AttributeError                             *)
RECURSIVE decode_loop(_, _, _, _, _)
decode_loop(encoded, i, current, r, decoded) ==
    IF i > Len(encoded) THEN Returned(decoded)
    ELSE LET nxt == decode_step(current, encoded[i])
         IN IF nxt = None THEN Raised
            ELSE IF nxt.char # NoChar
                 THEN decode_loop(encoded, i + 1, r, r, Append(decoded, nxt.char))
                 ELSE decode_loop(encoded, i + 1, nxt, r, decoded)

decode(encoded, r) ==
    IF encoded = <<>> \/ r = None THEN Returned(<<>>)
    ELSE decode_loop(encoded, 1, r, r, <<>>)

---------------------------------------------------------------------------
(* pickle: the object graph is written by value, in pre-order, and read    *)
(* back into fresh objects                                                 *)

RECURSIVE pickle_node(_)
pickle_node(node) ==
    IF node = None THEN <<[tag |-> "None"]>>
    ELSE <<[tag |-> "HuffmanNode", char |-> node.char, freq |-> node.freq]>>
         \o pickle_node(node.left) \o pickle_node(node.right)

(* reads one node from the front of toks: the node and the tokens left *)
RECURSIVE unpickle_node(_)
unpickle_node(toks) ==
    IF toks[1].tag = "None" THEN [node |-> None, rest |-> Tail(toks)]
    ELSE LET l == unpickle_node(Tail(toks))
             r == unpickle_node(l.rest)
         IN [node |-> [char |-> toks[1].char, freq |-> toks[1].freq,
                       left |-> l.node, right |-> r.node],
             rest |-> r.rest]

pickle_dumps(d) ==
    [tree |-> pickle_node(d.tree), data |-> d.data, padding |-> d.padding,
     original_length |-> d.original_length]

pickle_loads(b) ==
    [tree |-> unpickle_node(b.tree).node, data |-> b.data,
     padding |-> b.padding, original_length |-> b.original_length]

---------------------------------------------------------------------------
(* FileCompressor *)

Zeros(n) == [i \in 1..n |-> "0"]

(* int(byte, 2) *)
RECURSIVE int2(_)
int2(bits) ==
    IF bits = <<>> THEN 0
    ELSE 2 * int2(SubSeq(bits, 1, Len(bits) - 1))
         + (IF bits[Len(bits)] = "1" THEN 1 ELSE 0)

(* the bits written least-significant first *)
format08b_lsb(byte) ==
    [i \in 1..8 |-> IF (byte \div (2 ^ (i - 1))) % 2 = 1 THEN "1" ELSE "0"]

(* format(byte, '08b') *)
format08b(byte) ==
    [i \in 1..8 |-> IF (byte \div (2 ^ (8 - i))) % 2 = 1 THEN "1" ELSE "0"]

compress_padding(encoded_text) == 8 - (Len(encoded_text) % 8)

Min(a, b) == IF a < b THEN a ELSE b

(* the padding and the byte array compress makes of a bit string *)
pack(encoded_text) ==
    LET padding == compress_padding(encoded_text)
        padded == encoded_text \o Zeros(padding)
        n == (Len(padded) + 7) \div 8
    IN [padding |-> padding,
        data |-> [k \in 1..n |->
                    int2(SubSeq(padded, 8 * (k - 1) + 1, Min(8 * k, Len(padded))))]]

RECURSIVE expand(_)
expand(data) ==
    IF data = <<>> THEN <<>> ELSE format08b(data[1]) \o expand(Tail(data))

(* bit_string[:-padding] if padding else bit_string *)
remove_padding(bit_string, padding) ==
    IF padding # 0
    THEN SubSeq(bit_string, 1, Len(bit_string) - padding)
    ELSE bit_string

(* the bit string decompress recovers from the bytes and the padding *)
unpack(data, padding) == remove_padding(expand(data), padding)

(* compress on a FileCompressor whose encoder is in state (r, d) *)
compress(t, r, d) ==
    LET e == encode(t, r, d)
        p == pack(e.encoded)
    IN [blob |-> pickle_dumps([tree |-> e.root, data |-> p.data,
                               padding |-> p.padding,
                               original_length |-> Len(t)]),
        enc |-> e]

decompress(compressed) ==
    LET compressed_data == pickle_loads(compressed)
    IN decode(unpack(compressed_data.data, compressed_data.padding),
              compressed_data.tree)

---------------------------------------------------------------------------
(* A session with one FileCompressor: the caller compresses a text, keeps  *)
(* the artifact, may cut bytes off the end of its packed data, and         *)
(* decompresses it.                                                        *)

NoBlob == [present |-> FALSE]
NoResult == [called |-> FALSE]
NoEnc == [called |-> FALSE]

InitHeap == heap = <<>> /\ ret = None /\ prev = <<>>
InitPack == bitsIn = <<>> /\ packed = NoResult /\ unpacked = NoResult
InitCodec ==
    /\ root = None
    /\ codes = EmptyDict
    /\ blob = NoBlob
    /\ result = NoResult
    /\ text = <<>>
    /\ enc = NoEnc
    /\ bt = NoEnc
    /\ truncated = 0

Init == InitCodec /\ InitHeap /\ InitPack /\ op = "init"

Compress(t) ==
    \E c \in {compress(t, root, codes)} :
       /\ root' = c.enc.root
       /\ codes' = c.enc.selfcodes
       /\ blob' = c.blob
       /\ text' = t
       /\ enc' = [encoded |-> c.enc.encoded, codes |-> c.enc.codes]
       /\ bt' = [built |-> c.enc.built, root |-> c.enc.root, heap |-> c.enc.heap]
       /\ result' = NoResult
       /\ truncated' = 0
       /\ op' = "compress"
       /\ UNCHANGED <<heapVars, packVars>>

DataLen == IF blob = NoBlob THEN 0 ELSE Len(blob.data)

Truncate(k) ==
    /\ blob # NoBlob
    /\ truncated = 0
    /\ blob' = [blob EXCEPT !.data = SubSeq(blob.data, 1, Len(blob.data) - k)]
    /\ truncated' = k
    /\ result' = NoResult
    /\ op' = "truncate"
    /\ UNCHANGED <<root, codes, text, enc, bt, heapVars, packVars>>

Decompress ==
    /\ blob # NoBlob
    /\ result' = decompress(blob)
    /\ op' = "decompress"
    /\ UNCHANGED <<root, codes, blob, text, enc, bt, truncated, heapVars, packVars>>

Next ==
    \/ \E t \in Texts : Compress(t)
    \/ \E k \in 1..DataLen : Truncate(k)
    \/ Decompress

Spec == Init /\ [][Next]_vars

---------------------------------------------------------------------------
(* A MinHeap driven by arbitrary insert and extract_min calls *)

HeapItems == {HuffmanNode(c, f) : c \in {"a", "b"}, f \in 1..MaxFreq}

HeapInsert(item) ==
    /\ Len(heap) < MaxHeap
    /\ prev' = heap
    /\ heap' = insert(heap, item)
    /\ ret' = None
    /\ op' = "insert"
    /\ UNCHANGED <<codecVars, packVars>>

HeapExtractMin ==
    /\ prev' = heap
    /\ heap' = extract_min(heap).heap
    /\ ret' = extract_min(heap).ret
    /\ op' = "extract_min"
    /\ UNCHANGED <<codecVars, packVars>>

NextHeap ==
    \/ \E item \in HeapItems : HeapInsert(item)
    \/ HeapExtractMin

SpecHeap == Init /\ [][NextHeap]_vars

---------------------------------------------------------------------------
(* build_tree applied to an arbitrary text by a fresh HuffmanEncoder *)

InitTree ==
    /\ root = None /\ codes = EmptyDict /\ blob = NoBlob /\ result = NoResult
    /\ enc = NoEnc /\ bt = NoEnc /\ truncated = 0
    /\ InitHeap /\ InitPack /\ op = "init"
    /\ text \in TreeTexts

BuildTree ==
    /\ bt = NoEnc
    /\ \E b \in {build_tree(text, root)} :
          /\ root' = b.root
          /\ bt' = [built |-> TRUE, root |-> b.ret, heap |-> b.heap,
                    atexit |-> b.atexit]
    /\ op' = "build_tree"
    /\ UNCHANGED <<codes, blob, result, text, enc, truncated, heapVars, packVars>>

NextTree == BuildTree

SpecTree == InitTree /\ [][NextTree]_vars

---------------------------------------------------------------------------
(* Packing and unpacking of an arbitrary bit string *)

InitBits ==
    /\ InitCodec /\ InitHeap /\ op = "init"
    /\ bitsIn \in BitStrings
    /\ packed = NoResult
    /\ unpacked = NoResult

Pack ==
    /\ packed = NoResult
    /\ packed' = pack(bitsIn)
    /\ op' = "pack"
    /\ UNCHANGED <<codecVars, heapVars, bitsIn, unpacked>>

Unpack ==
    /\ packed # NoResult
    /\ unpacked = NoResult
    /\ unpacked' = [bits |-> unpack(packed.data, packed.padding)]
    /\ op' = "unpack"
    /\ UNCHANGED <<codecVars, heapVars, bitsIn, packed>>

NextBits == Pack \/ Unpack

SpecBits == InitBits /\ [][NextBits]_vars

---------------------------------------------------------------------------
(* Properties *)

Range(q) == {q[i] : i \in DOMAIN q}
IsPrefix(p, q) == Len(p) <= Len(q) /\ SubSeq(q, 1, Len(p)) = p
StoredTree == pickle_loads(blob).tree
FreshBlob(t) == compress(t, None, EmptyDict).blob

(* C1: decompressing the artifact compress made of a text returns the text *)
C1_RoundTrip ==
    (op = "decompress" /\ truncated = 0) => result = Returned(text)

(* C2: a text of n >= 1 copies of one symbol c is stored as a single leaf  *)
(* holding c, c gets the code "0", and decompress returns the text         *)
C2_SingleSymbol ==
    (op = "decompress" /\ truncated = 0 /\ Cardinality(Range(text)) = 1) =>
        /\ StoredTree = HuffmanNode(text[1], Len(text))
        /\ enc.codes[text[1]] = <<"0">>
        /\ result = Returned(text)

(* C3: decompress of an artifact of a non-empty text whose packed data     *)
(* lost one or more trailing bytes raises; it never returns a string       *)
C3_TruncationDetected ==
    (op = "decompress" /\ truncated > 0 /\ text # <<>>) => result.ok = FALSE

(* C4: the padding compress records for an encoded bit string of length L  *)
(* is (8 - L mod 8) mod 8, a number in 0..7                                *)
C4_Padding ==
    op = "compress" =>
        /\ blob.padding = (8 - (Len(enc.encoded) % 8)) % 8
        /\ blob.padding \in 0..7

(* C5: whatever was compressed or decompressed before, compress makes of a *)
(* text the artifact a fresh FileCompressor makes of it                    *)
C5_Stateless ==
    op = "compress" => blob = FreshBlob(text)

(* C6: compress of the empty text builds no tree and returns an artifact   *)
(* with no tree and a zero-length encoded payload, which decompresses to   *)
(* the empty text                                                          *)
C6_EmptyInput ==
    (op \in {"compress", "decompress"} /\ text = <<>> /\ truncated = 0) =>
        /\ bt.built = FALSE
        /\ StoredTree = None
        /\ enc.encoded = <<>>
        /\ blob.original_length = 0
        /\ unpack(blob.data, blob.padding) = <<>>
        /\ (op = "decompress" => result = Returned(<<>>))

(* C7: the code table encode returns for a text with two or more distinct  *)
(* symbols holds only non-empty codes, none a prefix of another symbol's   *)
C7_PrefixCode ==
    (op = "compress" /\ Cardinality(Range(text)) >= 2) =>
        /\ \A c \in DOMAIN enc.codes : enc.codes[c] # <<>>
        /\ \A c1, c2 \in DOMAIN enc.codes :
              c1 # c2 => ~IsPrefix(enc.codes[c1], enc.codes[c2])

RECURSIVE WellFormed(_)
WellFormed(n) ==
    /\ n # None
    /\ IF n.char # NoChar
       THEN n.left = None /\ n.right = None
       ELSE /\ WellFormed(n.left)
            /\ WellFormed(n.right)
            /\ n.freq = n.left.freq + n.right.freq
            /\ n.left.freq <= n.right.freq

RECURSIVE Leaves(_)
Leaves(n) ==
    IF n = None THEN <<>>
    ELSE IF n.char # NoChar THEN <<[char |-> n.char, freq |-> n.freq]>>
    ELSE Leaves(n.left) \o Leaves(n.right)

(* C8: build_tree of a non-empty text leaves one node at the end of the    *)
(* loop, returns it as the root and leaves the heap empty; the tree has    *)
(* one leaf per distinct symbol weighted by its count; an internal node    *)
(* has no symbol, two children (the lighter extracted first, on the left)  *)
(* and the sum of their weights, so the root weighs len(text)              *)
C8_Tree ==
    (op = "build_tree" /\ text # <<>>) =>
        /\ bt.atexit = 1
        /\ bt.heap = <<>>
        /\ root = bt.root
        /\ WellFormed(bt.root)
        /\ Len(Leaves(bt.root)) = Cardinality(Range(text))
        /\ Range(Leaves(bt.root)) =
              {[char |-> c, freq |-> CounterCount(text, c)] : c \in Range(text)}
        /\ bt.root.freq = Len(text)

(* a tree whose root has two internal children *)
C8_Witness ==
    /\ op = "build_tree"
    /\ bt.root # None
    /\ bt.root.char = NoChar
    /\ bt.root.left.char = NoChar
    /\ bt.root.right.char = NoChar
    /\ bt.root.freq = Len(text)
    /\ bt.heap = <<>>

BagOf(q) == [x \in Range(q) |-> Cardinality({i \in DOMAIN q : q[i] = x})]
BagAdd(b, x) ==
    [y \in DOMAIN b \cup {x} |->
        (IF y \in DOMAIN b THEN b[y] ELSE 0) + (IF y = x THEN 1 ELSE 0)]

(* C9: every element of the heap array weighs at least as much as its      *)
(* parent; extract_min returns an element of minimal weight and removes    *)
(* just that one; on an empty heap it returns None and the heap stays      *)
(* empty                                                                   *)
C9_Heap ==
    /\ \A i \in 1..(Len(heap) - 1) : heap[i + 1].freq >= heap[parent(i) + 1].freq
    /\ (op = "extract_min" /\ prev # <<>>) =>
          /\ ret \in Range(prev)
          /\ \A x \in Range(prev) : ret.freq <= x.freq
          /\ BagAdd(BagOf(heap), ret) = BagOf(prev)
    /\ (op = "extract_min" /\ prev = <<>>) => (ret = None /\ heap = <<>>)

(* extract_min took the minimum out of a heap of four whose last element   *)
(* had to sink from the top                                                *)
C9_Witness ==
    /\ op = "extract_min"
    /\ Len(prev) >= 4
    /\ Len(heap) = Len(prev) - 1
    /\ ret = prev[1]
    /\ heap[1] # prev[Len(prev)]
    /\ \A x \in Range(heap) : ret.freq <= x.freq

(* C10: the bytes and padding packed from a bit string b of length L       *)
(* satisfy L + padding = 8 * (number of bytes), and expanding the bytes    *)
(* and dropping the last padding bits gives back b                         *)
C10_Unpack ==
    /\ packed # NoResult =>
          /\ Len(bitsIn) + packed.padding = 8 * Len(packed.data)
          /\ \A k \in DOMAIN packed.data : packed.data[k] \in 0..255
    /\ unpacked # NoResult => unpacked.bits = bitsIn

(* a bit string of exactly one byte, with a one in it, came back *)
C10_Witness ==
    /\ unpacked # NoResult
    /\ Len(bitsIn) = 8
    /\ "1" \in Range(bitsIn)
    /\ unpacked.bits = bitsIn
    /\ Len(packed.data) = 2

====
